---- MODULE Spec2Model ----
(***************************************************************************)
(* A model of tf_image_segmentation/recipes/mscoco/data_coco.py: the       *)
(* default configuration (coco_config), the commands coco_download,        *)
(* coco_json_to_segmentation, coco_segmentation_to_tfrecord, coco_setup    *)
(* and main, as the sacred experiment runs them.                           *)
(*                                                                         *)
(* Encoding of Python values.  A str is a sequence of tokens (a token is   *)
(* one character, or a run of characters that is never taken apart), so    *)
(* that + is \o and a slice is SubSeq.  A parameter holds a tagged value,  *)
(* Str(s) or List(l), because zip iterates a str character by character    *)
(* and a list element by element.                                          *)
(***************************************************************************)
EXTENDS Integers, Sequences, FiniteSets, TLC

\* ------------------------------------------------------------------ bounds
\* the longest 'instances' list an annotation file holds
MaxAnns == 2

\* ------------------------------------------------------- Python primitives
Str(s) == [kind |-> "str", val |-> s]
List(l) == [kind |-> "list", val |-> l]

\* iter(v): the elements of a list, the characters of a str
PyIter(v) == IF v.kind = "str" THEN [i \in DOMAIN v.val |-> <<v.val[i]>>] ELSE v.val

Min2(a, b) == IF a <= b THEN a ELSE b

\* len(zip(a, b, c)): zip stops at the shortest of its arguments
ZipLen(a, b, c) == Min2(Len(PyIter(a)), Min2(Len(PyIter(b)), Len(PyIter(c))))

\* os.path.join(a, b) for a relative b
Join(a, b) == a \o <<"/">> \o b

\* [f(x) for x in l]
RECURSIVE MapJoin(_, _)
MapJoin(base, l) ==
    IF l = <<>> THEN <<>> ELSE <<Join(base, Head(l))>> \o MapJoin(base, Tail(l))

RECURSIVE MapSuffix(_, _)
MapSuffix(l, suffix) ==
    IF l = <<>> THEN <<>> ELSE <<Head(l) \o suffix>> \o MapSuffix(Tail(l), suffix)

Range(s) == {s[i] : i \in DOMAIN s}

\* the sequences that list every element of S once (an order of S)
Perms(S) ==
    {s \in [1..Cardinality(S) -> S] : \A i, j \in 1..Cardinality(S) : s[i] = s[j] => i = j}

\* ----------------------------------------------------------- coco_config
Host == "http://msvocds.blob.core.windows.net"

urls ==
    << <<Host, "/", "coco2014", "/", "train2014", ".zip">>,
       <<Host, "/", "coco2014", "/", "val2014", ".zip">>,
       <<Host, "/", "coco2014", "/", "test2014", ".zip">>,
       <<Host, "/", "coco2015", "/", "test2015", ".zip">>,
       <<Host, "/", "annotations-1-0-3", "/", "instances_train-val2014", ".zip">>,
       <<Host, "/", "annotations-1-0-3", "/", "person_keypoints_trainval2014", ".zip">>,
       <<Host, "/", "annotations-1-0-4", "/", "image_info_test2014", ".zip">>,
       <<Host, "/", "annotations-1-0-4", "/", "image_info_test2015", ".zip">>,
       <<Host, "/", "annotations-1-0-3", "/", "captions_train-val2014", ".zip">> >>

data_prefixes == << <<"train2014">>, <<"val2014">>, <<"test2014">>, <<"test2015">> >>

image_filenames == MapSuffix(data_prefixes, <<".zip">>)

annotation_filenames ==
    << <<"instances_train-val2014", ".zip">>,
       <<"image_info_test2014", ".zip">>,
       <<"image_info_test2015", ".zip">>,
       <<"person_keypoints_trainval2014", ".zip">>,
       <<"captions_train-val2014", ".zip">> >>

md5s ==
    << <<"0da8c0bd3d6becc4dcb32757491aca88">>,
       <<"a3d79f5ed8d289b7a7554ce06a5782b3">>,
       <<"04127eef689ceac55e3a572c2c92f264">>,
       <<"65562e58af7d695cc47356951578c041">>,
       <<"59582776b8dd745d649cd249ada5acf7">>,
       <<"926b9df843c698817ee62e0e049e3753">>,
       <<"f3366b66dc90d8ae0764806c95e43c86">>,
       <<"8a5ad1a903b7896df7f8b34833b61757">>,
       <<"5750999c8c964077e3c81581170be65b">> >>

\* the archive each checksum of md5s is listed for (the comment on its line)
md5_archives ==
    << <<"train2014", ".zip">>,
       <<"val2014", ".zip">>,
       <<"test2014", ".zip">>,
       <<"test2015", ".zip">>,
       <<"instances_train-val2014", ".zip">>,
       <<"person_keypoints_trainval2014", ".zip">>,
       <<"image_info_test2014", ".zip">>,
       <<"image_info_test2015", ".zip">>,
       <<"captions_train-val2014", ".zip">> >>

filenames == image_filenames \o annotation_filenames

\* os.path.join(os.path.expanduser('~'), 'datasets'); "~" stands for the home
\* directory, the rest is spelled character by character
dataset_root == <<"~", "/", "d", "a", "t", "a", "s", "e", "t", "s">>

dataset_path == Join(dataset_root, <<"coco">>)

seg_mask_path == Join(dataset_path, <<"seg_mask">>)

annotation_json ==
    << <<"annotations", "/", "instances_train2014", ".json">>,
       <<"annotations", "/", "instances_val2014", ".json">> >>

annotation_paths == MapJoin(dataset_path, annotation_json)

\* data_prefixes[0:1]
seg_mask_image_paths == MapJoin(dataset_path, SubSeq(data_prefixes, 1, 1))

seg_mask_output_paths == MapJoin(seg_mask_path, SubSeq(data_prefixes, 1, 1))

tfrecord_filenames == MapJoin(dataset_path, MapSuffix(data_prefixes, <<".tfrecords">>))

image_dirs == MapJoin(dataset_path, data_prefixes)

\* the configuration sacred holds, by name
Config ==
    [dataset_root |-> Str(dataset_root),
     dataset_path |-> Str(dataset_path),
     data_prefixes |-> List(data_prefixes),
     filenames |-> List(filenames),
     urls |-> List(urls),
     md5s |-> List(md5s),
     tfrecord_filenames |-> List(tfrecord_filenames),
     annotation_paths |-> List(annotation_paths),
     image_dirs |-> List(image_dirs),
     seg_mask_output_paths |-> List(seg_mask_output_paths),
     seg_mask_image_paths |-> List(seg_mask_image_paths)]

\* a captured function called with no arguments: every parameter is filled
\* from the configuration entry of the same name
Inject(params) == [p \in Range(params) |-> Config[p]]

\* a call with positional arguments: the k-th parameter gets the k-th argument
BindPositional(params, args) ==
    [p \in Range(params) |-> args[CHOOSE k \in DOMAIN params : params[k] = p]]

\* the value of each name of `names` in the frame `frame`
Values(frame, names) == [k \in DOMAIN names |-> frame[names[k]]]

\* ------------------------------------------------------- parameter lists
coco_download_params ==
    <<"dataset_path", "filenames", "dataset_root", "urls", "md5s", "annotation_paths">>

coco_json_to_segmentation_params ==
    <<"seg_mask_output_paths", "annotation_paths", "seg_mask_image_paths">>

coco_segmentation_to_tfrecord_params ==
    <<"tfrecord_filenames", "image_dirs", "seg_mask_output_paths">>

coco_setup_params ==
    <<"dataset_root", "dataset_path", "data_prefixes", "filenames", "urls", "md5s",
      "tfrecord_filenames", "annotation_paths", "image_dirs", "seg_mask_output_paths">>

main_params == coco_setup_params

\* the names main passes to coco_setup, in the order of the call
main_call_args ==
    <<"data_prefixes", "dataset_path", "filenames", "dataset_root", "urls", "md5s",
      "tfrecord_filenames", "annotation_paths", "image_dirs", "seg_mask_output_paths">>

Commands ==
    {"main", "coco_setup", "coco_download", "coco_json_to_segmentation",
     "coco_segmentation_to_tfrecord", "print_coco_files"}

\* ------------------------------------------- the annotation file (COCO)
\* np.uint8 holds 8 bits: a value stored in MASK is kept modulo 2^8
UINT8 == 256

ToUint8(v) == v % UINT8

\* coco.imgs: the image metadata the annotation file lists, by image id
imgs ==
    [id \in {1, 2} |->
        IF id = 1
        THEN [id |-> 1, height |-> 1, width |-> 2, file_name |-> <<"a", ".", "j", "p", "g">>]
        ELSE [id |-> 2, height |-> 2, width |-> 1, file_name |-> <<"b", ".", "j", "p", "g">>]]

\* the image ids an annotation may name: the listed ones and one that is not
AnnImageIds == DOMAIN imgs \cup {3}

\* the category ids an annotation may carry; 258 does not fit 8 bits
CategoryIds == {1, 2, 258}

\* the pixels of an image, as (row, column)
Pixels(h, w) == (1..h) \X (1..w)

\* an annotation's geometry: a run-length-style set of pixel numbers
\* (column-major, as COCO's RLE counts them), or a malformed description
Segmentations ==
    {[ok |-> TRUE, runs |-> s] : s \in (SUBSET (1..2)) \ {{}}} \cup {[ok |-> FALSE, runs |-> {}]}

\* the annotations a file may hold.  Where the code never reads a field (the
\* category id of a malformed geometry, the category id and the geometry of an
\* annotation whose image is not listed) one value stands for all
Annotations ==
    {ann \in [image_id : AnnImageIds, category_id : CategoryIds, segmentation : Segmentations] :
        /\ ~ann.segmentation.ok => ann.category_id = 1
        /\ ann.image_id \notin DOMAIN imgs => ann.category_id = 1 /\ ~ann.segmentation.ok}

RECURSIVE SeqsUpTo(_, _)
SeqsUpTo(S, n) ==
    IF n = 0 THEN {<<>>}
    ELSE LET shorter == SeqsUpTo(S, n - 1)
         IN  shorter \cup {Append(s, x) : s \in {q \in shorter : Len(q) = n - 1}, x \in S}

\* coco.dataset of the files COCO(annFile, image_path) may load: an instance
\* file, a captions file ('sentences'), or a file with neither key
Datasets ==
    {[keys |-> {"images", "instances"}, instances |-> l] : l \in SeqsUpTo(Annotations, MaxAnns)}
    \cup {[keys |-> {"images", "sentences"}, instances |-> <<>>],
          [keys |-> {"images"}, instances |-> <<>>]}

\* the COCO object of a file: the path it was loaded from and its dataset
Load(annFile, dataset) ==
    [annFile |-> annFile, keys |-> dataset.keys, instances |-> dataset.instances]

NoDataset == [annFile |-> <<>>, keys |-> {}, instances |-> <<>>]

\* coco.annToMask(ann): the binary mask of ann, in the shape of ann's image
annToMask(ann) ==
    LET h == imgs[ann.image_id].height
        w == imgs[ann.image_id].width
    IN  [p \in Pixels(h, w) |->
            IF ((p[2] - 1) * h + p[1]) \in ann.segmentation.runs THEN 1 ELSE 0]

\* np.where(mask > 0)
Where(mask) == {p \in DOMAIN mask : mask[p] > 0}

\* the shape written the wrong way round: np.zeros((w, h))
ZerosTransposed(h, w) == [p \in Pixels(w, h) |-> 0]

\* np.zeros((h, w), dtype=np.uint8)
Zeros(h, w) == [p \in Pixels(h, w) |-> 0]

\* an assignment that leaves the pixels already labelled alone
AssignUnlabelled(M, ids, value) ==
    [p \in DOMAIN M |-> IF p \in ids /\ M[p] = 0 THEN ToUint8(value) ELSE M[p]]

\* MASK[ids] = value, on an array of np.uint8
Assign(M, ids, value) == [p \in DOMAIN M |-> IF p \in ids THEN ToUint8(value) ELSE M[p]]

\* the loop of lines 116-117: imgToAnns[ann['image_id']].append(ann)
GroupByImage(instances) ==
    [id \in {instances[k].image_id : k \in DOMAIN instances} |->
        SelectSeq(instances, LAMBDA ann : ann.image_id = id)]

\* name[:-4] + ".png"
PngName(name) == SubSeq(name, 1, Len(name) - 4) \o <<".", "p", "n", "g">>

\* file.endswith(ext) for a four-character ext
EndsWith(name, ext) == Len(name) >= 4 /\ SubSeq(name, Len(name) - 3, Len(name)) = ext

JpgExt == <<".", "j", "p", "g">>

PngExt == <<".", "p", "n", "g">>

\* ------------------------------------------------------- the file system
\* what the image directories hold once the archives are extracted
ImageDirFiles == {imgs[id].file_name : id \in DOMAIN imgs} \cup {<<"n", ".", "t", "x", "t">>}

MaskNames == {PngName(imgs[id].file_name) : id \in DOMAIN imgs}

Dirs == Range(image_dirs) \cup Range(seg_mask_output_paths)

NoImg == [id |-> 0, height |-> 0, width |-> 0, file_name |-> <<>>]

EmptyMask == [p \in {} |-> 0]

NoFrame == [p \in {} |-> 0]

VARIABLES
    command,    \* the command sacred was asked to run
    pc,         \* the position of the run
    exc,        \* the exception that ended the run, or "none"
    setup,      \* the parameters of coco_setup, when it runs
    args,       \* the parameters of the step that runs
    stdout,     \* what was printed
    zip_paths,  \* coco_download's zip_paths
    i,          \* coco_download: the index into zip(urls, filenames, md5s)
    calls,      \* coco_download: the get_file calls made
    t,          \* coco_json_to_segmentation: the index of the triple
    coco,       \* the COCO object of the annotation file loaded last
    imgToAnns,  \* the annotations, by image id
    keys,       \* imgToAnns.keys()
    img_num,    \* the index into keys
    img,        \* the image metadata of the image in work
    MASK,       \* the label array of the image in work
    a,          \* the index into the annotations of the image in work
    written,    \* the im.save calls made
    fs,         \* the files of each directory
    r,          \* coco_segmentation_to_tfrecord: the index of the triple
    records     \* the write_image_annotation_pairs_to_tfrecord calls made

vars ==
    <<command, pc, exc, setup, args, stdout, zip_paths, i, calls, t, coco, imgToAnns,
      keys, img_num, img, MASK, a, written, fs, r, records>>

dlVars == <<zip_paths, i, calls>>

jsVars == <<t, coco, imgToAnns, keys, img_num, img, MASK, a, written>>

tfVars == <<r, records>>

\* sacred starts a command on an extracted data set; only a run that starts at
\* coco_segmentation_to_tfrecord finds masks of an earlier run
Init ==
    /\ command \in Commands
    /\ pc = "start"
    /\ exc = "none"
    /\ setup = NoFrame
    /\ args = NoFrame
    /\ stdout = <<>>
    /\ zip_paths = <<>>
    /\ i = 1
    /\ calls = <<>>
    /\ t = 1
    /\ coco = NoDataset
    /\ imgToAnns = [id \in {} |-> <<>>]
    /\ keys = <<>>
    /\ img_num = 1
    /\ img = NoImg
    /\ MASK = EmptyMask
    /\ a = 1
    /\ written = <<>>
    /\ \E old \in SUBSET MaskNames :
          /\ command # "coco_segmentation_to_tfrecord" => old = {}
          /\ fs = [d \in Dirs |-> IF d \in Range(image_dirs) THEN ImageDirFiles ELSE old]
    /\ r = 1
    /\ records = <<>>

\* where a step goes when it returns: back into coco_setup, or out
Return(next) == IF command \in {"main", "coco_setup"} THEN next ELSE "done"

\* ---------------------------------------------------- main, coco_setup
\* sacred fills main's parameters by name; main calls coco_config() and then
\* coco_setup with ten positional arguments
main ==
    /\ pc = "start" /\ command = "main"
    /\ setup' = BindPositional(coco_setup_params, Values(Inject(main_params), main_call_args))
    /\ pc' = "setup_download"
    /\ UNCHANGED <<command, exc, args, stdout, dlVars, jsVars, fs, tfVars>>

\* coco_setup run as a command: sacred fills its parameters by name
coco_setup ==
    /\ pc = "start" /\ command = "coco_setup"
    /\ setup' = Inject(coco_setup_params)
    /\ pc' = "setup_download"
    /\ UNCHANGED <<command, exc, args, stdout, dlVars, jsVars, fs, tfVars>>

\* line 165: coco_download(dataset_path, filenames, dataset_root, urls, md5s, annotation_paths)
SetupDownload ==
    /\ pc = "setup_download"
    /\ args' = BindPositional(coco_download_params,
                   Values(setup, <<"dataset_path", "filenames", "dataset_root", "urls",
                                   "md5s", "annotation_paths">>))
    /\ pc' = "coco_files"
    /\ UNCHANGED <<command, exc, setup, stdout, dlVars, jsVars, fs, tfVars>>

\* line 167: coco_json_to_segmentation(seg_mask_output_paths, annotation_paths);
\* sacred fills the third parameter, seg_mask_image_paths, from the configuration
SetupJson ==
    /\ pc = "setup_json"
    /\ args' = [seg_mask_output_paths |-> setup.seg_mask_output_paths,
                annotation_paths |-> setup.annotation_paths,
                seg_mask_image_paths |-> Config.seg_mask_image_paths]
    /\ t' = 1
    /\ pc' = "json_loop"
    /\ UNCHANGED <<command, exc, setup, stdout, dlVars, coco, imgToAnns, keys, img_num,
                   img, MASK, a, written, fs, tfVars>>

\* lines 168-169: coco_segmentation_to_tfrecord(tfrecord_filenames, image_dirs, seg_mask_output_paths)
SetupTfrecord ==
    /\ pc = "setup_tfrecord"
    /\ args' = BindPositional(coco_segmentation_to_tfrecord_params,
                   Values(setup, <<"tfrecord_filenames", "image_dirs", "seg_mask_output_paths">>))
    /\ r' = 1
    /\ pc' = "tfrecord_loop"
    /\ UNCHANGED <<command, exc, setup, stdout, dlVars, jsVars, fs, records>>

\* coco_setup returns
SetupReturn ==
    /\ pc = "setup_return"
    /\ pc' = "done"
    /\ UNCHANGED <<command, exc, setup, args, stdout, dlVars, jsVars, fs, tfVars>>

\* ------------------------------------- coco_download, print_coco_files
\* a command of six parameters run by sacred: coco_download or print_coco_files
FilesCommand ==
    /\ pc = "start" /\ command \in {"coco_download", "print_coco_files"}
    /\ args' = Inject(coco_download_params)
    /\ pc' = "coco_files"
    /\ UNCHANGED <<command, exc, setup, stdout, dlVars, jsVars, fs, tfVars>>

\* coco_files: six prints, and the archive paths
coco_files ==
    /\ pc = "coco_files"
    /\ stdout' = stdout \o <<args.dataset_path, args.dataset_root, args.urls,
                             args.filenames, args.md5s, args.annotation_paths>>
    /\ zip_paths' = MapJoin(args.dataset_path.val, PyIter(args.filenames))
    /\ i' = 1
    /\ pc' = IF command = "print_coco_files" THEN "done" ELSE "download_loop"
    /\ UNCHANGED <<command, exc, setup, args, calls, jsVars, fs, tfVars>>

\* one round of the loop of lines 101-107: get_file, then the extraction
DownloadStep ==
    /\ pc = "download_loop"
    /\ i <= ZipLen(args.urls, args.filenames, args.md5s)
    /\ calls' = Append(calls, [url |-> PyIter(args.urls)[i],
                               filename |-> PyIter(args.filenames)[i],
                               md5 |-> PyIter(args.md5s)[i],
                               cache_subdir |-> args.dataset_path])
    /\ i' = i + 1
    /\ UNCHANGED <<command, pc, exc, setup, args, stdout, zip_paths, jsVars, fs, tfVars>>

\* zip is exhausted: coco_download returns
DownloadReturn ==
    /\ pc = "download_loop"
    /\ i > ZipLen(args.urls, args.filenames, args.md5s)
    /\ pc' = Return("setup_json")
    /\ UNCHANGED <<command, exc, setup, args, stdout, dlVars, jsVars, fs, tfVars>>

\* ------------------------------------------ coco_json_to_segmentation
JsonCommand ==
    /\ pc = "start" /\ command = "coco_json_to_segmentation"
    /\ args' = Inject(coco_json_to_segmentation_params)
    /\ t' = 1
    /\ pc' = "json_loop"
    /\ UNCHANGED <<command, exc, setup, stdout, dlVars, coco, imgToAnns, keys, img_num,
                   img, MASK, a, written, fs, tfVars>>

JsonTriples == ZipLen(args.seg_mask_output_paths, args.annotation_paths, args.seg_mask_image_paths)

\* lines 112-114: the next triple; COCO(annFile, image_path) loads the file
JsonLoad ==
    /\ pc = "json_loop"
    /\ t <= JsonTriples
    /\ \E dataset \in Datasets : coco' = Load(PyIter(args.annotation_paths)[t], dataset)
    /\ imgToAnns' = [id \in {} |-> <<>>]
    /\ pc' = "json_branch"
    /\ UNCHANGED <<command, exc, setup, args, stdout, dlVars, t, keys, img_num, img, MASK,
                   a, written, fs, tfVars>>

\* zip is exhausted: coco_json_to_segmentation returns
JsonReturn ==
    /\ pc = "json_loop"
    /\ t > JsonTriples
    /\ pc' = Return("setup_tfrecord")
    /\ UNCHANGED <<command, exc, setup, args, stdout, dlVars, jsVars, fs, tfVars>>

\* lines 115-117: the annotations are grouped by image id.  The order of
\* imgToAnns.keys() is the dict's own: any order of the keys, the same one for
\* as long as the dict is not changed
JsonGroup ==
    /\ pc = "json_branch"
    /\ "instances" \in coco.keys
    /\ imgToAnns' = GroupByImage(coco.instances)
    /\ \E order \in Perms(DOMAIN GroupByImage(coco.instances)) : keys' = order
    /\ img_num' = 1
    /\ pc' = "json_image"
    /\ UNCHANGED <<command, exc, setup, args, stdout, dlVars, t, coco, img, MASK, a,
                   written, fs, tfVars>>

\* lines 135-138: the message is built as str + annotation_paths, a list:
\* TypeError, before anything is printed
JsonSkipSentences ==
    /\ pc = "json_branch"
    /\ "instances" \notin coco.keys /\ "sentences" \in coco.keys
    /\ IF args.annotation_paths.kind = "str"
       THEN /\ stdout' = Append(stdout, Str(<<"Skipping due to no instances in annotations, sentences conversion not supported.">>))
            /\ t' = t + 1
            /\ pc' = "json_loop"
            /\ exc' = exc
       ELSE /\ exc' = "TypeError"
            /\ pc' = "raised"
            /\ UNCHANGED <<stdout, t>>
    /\ UNCHANGED <<command, setup, args, dlVars, coco, imgToAnns, keys, img_num, img,
                   MASK, a, written, fs, tfVars>>

\* lines 139-142: the same concatenation, the same TypeError
JsonSkipOther ==
    /\ pc = "json_branch"
    /\ "instances" \notin coco.keys /\ "sentences" \notin coco.keys
    /\ IF args.annotation_paths.kind = "str"
       THEN /\ stdout' = Append(stdout, Str(<<"Skipping due to no instances in annotations.">>))
            /\ t' = t + 1
            /\ pc' = "json_loop"
            /\ exc' = exc
       ELSE /\ exc' = "TypeError"
            /\ pc' = "raised"
            /\ UNCHANGED <<stdout, t>>
    /\ UNCHANGED <<command, setup, args, dlVars, coco, imgToAnns, keys, img_num, img,
                   MASK, a, written, fs, tfVars>>

\* lines 119-127: the next image; coco.loadImgs raises KeyError for an image
\* id the file lists no metadata for
JsonImage ==
    /\ pc = "json_image"
    /\ img_num <= Len(keys)
    /\ LET image_id == imgToAnns[keys[img_num]][1].image_id
       IN  IF image_id \in DOMAIN imgs
           THEN /\ img' = imgs[image_id]
                /\ MASK' = Zeros(imgs[image_id].height, imgs[image_id].width)
                /\ a' = 1
                /\ pc' = "json_ann"
                /\ exc' = exc
           ELSE /\ exc' = "KeyError"
                /\ pc' = "raised"
                /\ UNCHANGED <<img, MASK, a>>
    /\ UNCHANGED <<command, setup, args, stdout, dlVars, t, coco, imgToAnns, keys,
                   img_num, written, fs, tfVars>>

\* range(len(imgToAnns.keys())) is exhausted: on to the next triple
JsonNext ==
    /\ pc = "json_image"
    /\ img_num > Len(keys)
    /\ t' = t + 1
    /\ pc' = "json_loop"
    /\ UNCHANGED <<command, exc, setup, args, stdout, dlVars, coco, imgToAnns, keys,
                   img_num, img, MASK, a, written, fs, tfVars>>

\* lines 128-131: one annotation is painted; coco.annToMask raises on a
\* geometry it cannot convert, and nothing catches it
JsonAnn ==
    /\ pc = "json_ann"
    /\ a <= Len(imgToAnns[keys[img_num]])
    /\ LET ann == imgToAnns[keys[img_num]][a]
       IN  IF ann.segmentation.ok
           THEN /\ MASK' = Assign(MASK, Where(annToMask(ann)), ann.category_id)
                /\ a' = a + 1
                /\ UNCHANGED <<pc, exc>>
           ELSE /\ exc' = "Exception"
                /\ pc' = "raised"
                /\ UNCHANGED <<MASK, a>>
    /\ UNCHANGED <<command, setup, args, stdout, dlVars, t, coco, imgToAnns, keys,
                   img_num, img, written, fs, tfVars>>

\* lines 133-134: the mask is saved as <root_name>.png in seg_mask_path
JsonSave ==
    /\ pc = "json_ann"
    /\ a > Len(imgToAnns[keys[img_num]])
    /\ LET dir == PyIter(args.seg_mask_output_paths)[t]
           name == PngName(img.file_name)
       IN  /\ written' = Append(written, [annFile |-> coco.annFile, dir |-> dir, name |-> name,
                                          image_id |-> img.id, mask |-> MASK])
           /\ fs' = [fs EXCEPT ![dir] = @ \cup {name}]
    /\ img_num' = img_num + 1
    /\ pc' = "json_image"
    /\ UNCHANGED <<command, exc, setup, args, stdout, dlVars, t, coco, imgToAnns, keys,
                   img, MASK, a, tfVars>>

\* ------------------------------------- coco_segmentation_to_tfrecord
TfrecordCommand ==
    /\ pc = "start" /\ command = "coco_segmentation_to_tfrecord"
    /\ args' = Inject(coco_segmentation_to_tfrecord_params)
    /\ r' = 1
    /\ pc' = "tfrecord_loop"
    /\ UNCHANGED <<command, exc, setup, stdout, dlVars, jsVars, fs, records>>

TfrecordTriples == ZipLen(args.tfrecord_filenames, args.image_dirs, args.seg_mask_output_paths)

\* zip(img_list, mask_list)
ZipPairs(img_list, mask_list) ==
    [k \in 1..Min2(Len(img_list), Len(mask_list)) |-> <<img_list[k], mask_list[k]>>]

\* lines 150-157: os.listdir gives the files of a directory in an order of
\* its own; the two filtered lists are zipped and handed to the encoder
TfrecordStep ==
    /\ pc = "tfrecord_loop"
    /\ r <= TfrecordTriples
    /\ LET img_dir == PyIter(args.image_dirs)[r]
           mask_dir == PyIter(args.seg_mask_output_paths)[r]
       IN  \E img_files \in Perms({f \in fs[img_dir] : EndsWith(f, JpgExt)}),
              mask_files \in Perms({f \in fs[mask_dir] : EndsWith(f, PngExt)}) :
              records' = Append(records,
                  [tfrecords_filename |-> PyIter(args.tfrecord_filenames)[r],
                   filename_pairs |-> ZipPairs(MapJoin(img_dir, img_files),
                                               MapJoin(mask_dir, mask_files))])
    /\ r' = r + 1
    /\ UNCHANGED <<command, pc, exc, setup, args, stdout, dlVars, jsVars, fs>>

\* zip is exhausted: coco_segmentation_to_tfrecord returns
TfrecordReturn ==
    /\ pc = "tfrecord_loop"
    /\ r > TfrecordTriples
    /\ pc' = Return("setup_return")
    /\ UNCHANGED <<command, exc, setup, args, stdout, dlVars, jsVars, fs, tfVars>>

Next ==
    \/ main
    \/ coco_setup
    \/ SetupDownload
    \/ SetupJson
    \/ SetupTfrecord
    \/ SetupReturn
    \/ FilesCommand
    \/ coco_files
    \/ DownloadStep
    \/ DownloadReturn
    \/ JsonCommand
    \/ JsonLoad
    \/ JsonReturn
    \/ JsonGroup
    \/ JsonSkipSentences
    \/ JsonSkipOther
    \/ JsonImage
    \/ JsonNext
    \/ JsonAnn
    \/ JsonSave
    \/ TfrecordCommand
    \/ TfrecordStep
    \/ TfrecordReturn

Spec == Init /\ [][Next]_vars

\* =============================================================== claims
\* the masks saved for the annotation file that is loaded
Saved == {k \in DOMAIN written : written[k].annFile = coco.annFile}

\* the places, in the file's list order, of the annotations of image `id`
AnnsOfImage(id) == {k \in DOMAIN coco.instances : coco.instances[k].image_id = id}

\* the pixels annotation k covers
Coverage(k) == Where(annToMask(coco.instances[k]))

\* the places of the annotations of image `id` that cover pixel p
Covering(id, p) == {k \in AnnsOfImage(id) : p \in Coverage(k)}

\* the last annotation, in list order, of image `id` that covers pixel p
LastCovering(id, p) == CHOOSE k \in Covering(id, p) : \A j \in Covering(id, p) : j <= k

\* no two annotations of image `id` cover a common pixel
Disjoint(id) ==
    \A j, k \in AnnsOfImage(id) : j # k => Coverage(j) \cap Coverage(k) = {}

ShapeOf(id) == Pixels(imgs[id].height, imgs[id].width)

\* C1 (as claimed): in every saved mask, a pixel that annotations cover holds
\* the category id of the last annotation, in list order, that covers it; so
\* the overlap of A then B holds B's category id.
C1_LastAnnotationWins ==
    \A w \in Saved :
        LET id == written[w].image_id
        IN  \A p \in ShapeOf(id) :
                Covering(id, p) # {} =>
                    /\ p \in DOMAIN written[w].mask
                    /\ written[w].mask[p] = coco.instances[LastCovering(id, p)].category_id

\* C1 (amended): in every saved mask, a pixel that annotations cover holds the
\* category id of the last annotation, in list order, that covers it, reduced
\* modulo 256 by the 8-bit array: the id itself whenever it is below 256.
C1_LastAnnotationWinsMod256 ==
    \A w \in Saved :
        LET id == written[w].image_id
        IN  \A p \in ShapeOf(id) :
                Covering(id, p) # {} =>
                    LET last == coco.instances[LastCovering(id, p)].category_id
                    IN  /\ p \in DOMAIN written[w].mask
                        /\ written[w].mask[p] = last % 256
                        /\ last < 256 => written[w].mask[p] = last

\* C1's case: a saved mask with a pixel that A and then B cover, of different
\* category ids that fit 8 bits, and the pixel holds B's.
C1_Witness ==
    \E w \in Saved :
        LET id == written[w].image_id
        IN  \E p \in ShapeOf(id) :
                \E j, k \in Covering(id, p) :
                    /\ j < k
                    /\ k = LastCovering(id, p)
                    /\ coco.instances[j].category_id < 256
                    /\ coco.instances[k].category_id < 256
                    /\ coco.instances[j].category_id # coco.instances[k].category_id
                    /\ written[w].mask[p] = coco.instances[k].category_id

\* the pixels of mask M that hold the value c
Holding(M, c) == {p \in DOMAIN M : M[p] = c}

\* the pixels the annotations of image `id` with category id c cover
CoveredBy(id, c) ==
    UNION {Coverage(k) : k \in {j \in AnnsOfImage(id) : coco.instances[j].category_id = c}}

\* C2 (as claimed): the saved mask of an image whose annotations are pairwise
\* disjoint has the shape (height, width) of the image, holds each category id
\* C at exactly the pixels the annotations of category C cover, and 0 at every
\* other pixel, for every category id an annotation carries.
C2_DisjointMaskExact ==
    \A w \in Saved :
        LET id == written[w].image_id
            M == written[w].mask
        IN  Disjoint(id) =>
                /\ DOMAIN M = ShapeOf(id)
                /\ \A k \in AnnsOfImage(id) :
                       Holding(M, coco.instances[k].category_id)
                           = CoveredBy(id, coco.instances[k].category_id)
                /\ \A p \in ShapeOf(id) : Covering(id, p) = {} => M[p] = 0

\* C2 (amended): the same, for the images whose annotations all carry a
\* category id from 1 to 255, the ids the 8-bit mask can hold.
C2_DisjointMaskExactUint8 ==
    \A w \in Saved :
        LET id == written[w].image_id
            M == written[w].mask
        IN  (/\ Disjoint(id)
             /\ \A k \in AnnsOfImage(id) : coco.instances[k].category_id \in 1..255) =>
                /\ DOMAIN M = ShapeOf(id)
                /\ \A k \in AnnsOfImage(id) :
                       Holding(M, coco.instances[k].category_id)
                           = CoveredBy(id, coco.instances[k].category_id)
                /\ \A p \in ShapeOf(id) : Covering(id, p) = {} => M[p] = 0

\* C2's case: a saved mask of an image with two disjoint annotations of
\* different category ids, both from 1 to 255.
C2_Witness ==
    \E w \in Saved :
        LET id == written[w].image_id
        IN  /\ Disjoint(id)
            /\ \A k \in AnnsOfImage(id) : coco.instances[k].category_id \in 1..255
            /\ \E j, k \in AnnsOfImage(id) :
                   coco.instances[j].category_id # coco.instances[k].category_id
            /\ DOMAIN written[w].mask = ShapeOf(id)

IsSkipDiagnostic(line) ==
    /\ line.kind = "str"
    /\ line.val \in {<<"Skipping due to no instances in annotations, sentences conversion not supported.">>,
                     <<"Skipping due to no instances in annotations.">>}

\* C3: once an annotation file without 'instances' has been dealt with, no
\* exception was raised, a skip diagnostic was printed, no mask was written
\* for it, and the run is at the next triple.
C3_SkipWithoutException ==
    (coco.keys # {} /\ "instances" \notin coco.keys /\ pc # "json_branch") =>
        /\ exc = "none"
        /\ pc # "raised"
        /\ \E k \in DOMAIN stdout : IsSkipDiagnostic(stdout[k])
        /\ written = <<>>

\* the last path segment: what follows the last "/"
Basename(path) ==
    LET slashes == {k \in DOMAIN path : path[k] = "/"}
        last == CHOOSE k \in slashes : \A j \in slashes : j <= k
    IN  SubSeq(path, last + 1, Len(path))

\* a file name without its four-character extension
Stem(path) == SubSeq(Basename(path), 1, Len(Basename(path)) - 4)

\* C4: every (image path, mask path) pair handed to the record encoder has the
\* same file stem on both sides.
C4_PairsShareStem ==
    \A k \in DOMAIN records :
        \A n \in DOMAIN records[k].filename_pairs :
            Stem(records[k].filename_pairs[n][1]) = Stem(records[k].filename_pairs[n][2])

\* C5: once an instance annotation file has been processed, the output
\* directory holds exactly one mask per image of the file's metadata, named
\* after the image with .png for the extension.
C5_OneMaskPerListedImage ==
    (t > 1 /\ "instances" \in coco.keys) =>
        /\ fs[seg_mask_output_paths[1]] = MaskNames
        /\ \A id \in DOMAIN imgs :
               Cardinality({k \in DOMAIN written :
                   written[k].name = PngName(imgs[id].file_name)}) = 1

\* C6: when coco_setup returns under the default configuration, every split
\* with an annotation file in annotation_paths was rasterized and has exactly
\* one record container file.
C6_EveryAnnotatedSplitConverted ==
    (pc = "done" /\ command \in {"main", "coco_setup"}) =>
        \A k \in DOMAIN annotation_paths :
            /\ t > k
            /\ Cardinality({n \in DOMAIN records :
                   records[n].tfrecords_filename = tfrecord_filenames[k]}) = 1

\* C7: a failure of one annotation (no metadata for its image id, or a
\* geometry that cannot be converted) never ends the run, and once the file is
\* processed every listed image with an annotation has its mask.
C7_AnnotationFailureIsLocal ==
    /\ exc \notin {"KeyError", "Exception"}
    /\ (t > 1 /\ "instances" \in coco.keys) =>
           \A id \in DOMAIN imgs :
               AnnsOfImage(id) # {} => PngName(imgs[id].file_name) \in fs[seg_mask_output_paths[1]]

\* C8: the masks of one annotation file are written in ascending order of
\* image id, whatever the order of the dict's keys.
C8_AscendingImageOrder ==
    \A j, k \in DOMAIN written :
        (j < k /\ written[j].annFile = written[k].annFile) =>
            written[j].image_id < written[k].image_id

\* C9: every get_file call of coco_download under the default configuration
\* names one archive: the URL's last segment is the file name, and the
\* checksum is the one listed for that file name.
C9_DownloadTriplesAligned ==
    command = "coco_download" =>
        \A k \in DOMAIN calls :
            /\ Basename(calls[k].url) = calls[k].filename
            /\ \E n \in DOMAIN md5s : md5_archives[n] = calls[k].filename /\ md5s[n] = calls[k].md5

SameValue(x, y) == x.kind = y.kind /\ x.val = y.val

\* C10: run through main, coco_setup holds every configuration value under
\* the parameter of the same name, and coco_download iterates the configured
\* list of archive file names.
C10_ParametersBoundByName ==
    command = "main" =>
        /\ pc \notin {"start"} =>
               \A p \in Range(coco_setup_params) : SameValue(setup[p], Config[p])
        /\ pc = "download_loop" => SameValue(args.filenames, Config.filenames)

====
